---- MODULE Spec2Model ----
(***************************************************************************)
(* NetBoxDNSSource (src/src/octodns_netbox_dns/__init__.py): the read path *)
(* populate() and the write path _apply() of the octoDNS provider for the  *)
(* NetBox DNS plugin, as a state machine over the remote record store.     *)
(*                                                                         *)
(* Text is modelled as a sequence of one-token strings, so that indexing   *)
(* (rcd_value[-1], repr(v)[1:-1]) is computed as the code computes it.     *)
(***************************************************************************)
EXTENDS Integers, Sequences, FiniteSets, TLC

VARIABLES
    config,     \* the constructor's parameters kept on the provider
    nb_zone,    \* outcome of the remote zone lookup (_get_nb_zone)
    nb_store,   \* the remote records of the zone, in the order a fetch yields them
    pc,         \* position: "idle", "apply", "done", "error", "populated"
    error,      \* the exception the running operation ended with, or "none"
    zone,       \* populate: the add_record calls received by the target zone
    processed,  \* _apply: number of changes of plan.changes processed so far
    last,       \* _apply: the change processed last
    before,     \* _apply: nb_store as it was before the change processed last
    calls,      \* _apply: the remote calls issued for the change processed last
    lookups,    \* _apply: number of zone lookups issued by this invocation
    next_id     \* the id the remote store gives to the next created record

vars == <<config, nb_zone, nb_store, pc, error, zone, processed, last, before,
          calls, lookups, next_id>>

(***************************************************************************)
(* Bounds.                                                                 *)
(***************************************************************************)
MaxRecords == 3     \* remote records of the zone when populate runs
MaxStore == 2       \* remote records of the zone when _apply starts
MaxChanges == 2     \* changes in one plan

(***************************************************************************)
(* Text helpers.                                                           *)
(***************************************************************************)
Last(s) == s[Len(s)]

Range(s) == {s[i] : i \in 1..Len(s)}

\* nb_record.ttl is None
NoTTL == -1

\* Python truthiness of nb_record.ttl: None and 0 are both falsy.
Truthy(ttl) == ttl /= NoTTL /\ ttl /= 0

(***************************************************************************)
(* Construction (__init__).                                                *)
(***************************************************************************)
Configs == {[ttl |-> 3600, replace_duplicates |-> b] : b \in BOOLEAN}

\* The zone lookup: the zone record, None when the zone is not found, or a
\* RequestError raised by the client.
ZoneFound == [status |-> "found", id |-> 1, name |-> <<"z">>,
              default_ttl |-> 3600, soa_refresh |-> 7200]
ZoneNone == [status |-> "none"]
ZoneRaise == [status |-> "raise"]

ZoneLookups == {ZoneFound, ZoneNone, ZoneRaise}

(***************************************************************************)
(* populate: per-record normalisation.                                     *)
(***************************************************************************)
\* rcd_name: the apex "@" becomes "".
RcdName(name) == IF name /= "@" THEN name ELSE ""

\* rcd_value: the value "@" becomes the zone's name.
RcdValue(value, z) == IF value /= <<"@">> THEN value ELSE z.name

\* A mutant of MakeAbsolute: the CNAME target is left as it is.
MakeAbsolute_Unchanged(type, rcd_value) == rcd_value

\* "make CNAME record absolute": unconditional, no configuration is consulted.
MakeAbsolute(type, rcd_value) ==
    IF type = "CNAME" /\ Last(rcd_value) /= "." THEN rcd_value \o <<".">>
    ELSE rcd_value

\* TTL fallback.
ResolveTTL(ttl, type, z) ==
    IF Truthy(ttl) THEN ttl
    ELSE IF type = "NS" THEN z.soa_refresh
    ELSE z.default_ttl

\* The value handed to the decoder for a remote record.
Normalised(r, z) == MakeAbsolute(r.type, RcdValue(r.value, z))

\* The data template of a remote record.
Data(r, z) ==
    [name |-> RcdName(r.name), type |-> r.type,
     ttl |-> ResolveTTL(r.ttl, r.type, z), values |-> <<>>]

(***************************************************************************)
(* populate: the decode table.                                             *)
(***************************************************************************)
AddressTypes == {"A", "AAAA"}
NameTypes == {"CNAME", "DNAME", "NS", "PTR"}
TextTypes == {"SPF", "TXT"}
StructTypes == {"CAA", "LOC", "MX", "NAPTR", "SSHFP", "SRV"}

\* A mutant of DecodeCase: a type with no case is skipped like an SOA.
DecodeCase_SkipUnknown(type) ==
    IF type \in AddressTypes \cup NameTypes \cup TextTypes \cup StructTypes
    THEN "value" ELSE "skip"

\* Which arm of the match a record type takes.
DecodeCase(type) ==
    IF type \in AddressTypes \cup NameTypes \cup TextTypes \cup StructTypes
    THEN "value"
    ELSE IF type = "SOA" THEN "skip"
    ELSE "error"

\* The decoded value of the arms that produce one.  An MX value is
\* <<preference, " ", exchange tokens...>>.
Decode(type, rcd_value) ==
    IF type = "MX"
    THEN [preference |-> rcd_value[1],
          exchange |-> SubSeq(rcd_value, 3, Len(rcd_value))]
    ELSE rcd_value

(***************************************************************************)
(* populate: grouping by (name, type) and the collapse of single values.   *)
(***************************************************************************)
KeyOf(d) == <<d.name, d.type>>

HasKey(records, k) == \E i \in 1..Len(records) : KeyOf(records[i]) = k

\* A mutant of AddValue: a later record of a key overwrites the key's TTL.
AddValue_LastTTL(records, d, value) ==
    IF HasKey(records, KeyOf(d))
    THEN [i \in 1..Len(records) |->
            IF KeyOf(records[i]) = KeyOf(d)
            THEN [records[i] EXCEPT !.values = Append(@, value), !.ttl = d.ttl]
            ELSE records[i]]
    ELSE Append(records, [d EXCEPT !.values = <<value>>])

\* records[key] = data if the key is new; records[key]["values"].append(value).
\* The dict keeps insertion order: a sequence with one entry per key.
AddValue(records, d, value) ==
    IF HasKey(records, KeyOf(d))
    THEN [i \in 1..Len(records) |->
            IF KeyOf(records[i]) = KeyOf(d)
            THEN [records[i] EXCEPT !.values = Append(@, value)]
            ELSE records[i]]
    ELSE Append(records, [d EXCEPT !.values = <<value>>])

\* The first loop of populate over the fetched records.
RECURSIVE Group(_, _, _)
Group(nbs, z, records) ==
    IF nbs = <<>> THEN [error |-> "none", records |-> records]
    ELSE LET r == Head(nbs)
             c == DecodeCase(r.type)
         IN  IF c = "error" THEN [error |-> "ValueError", records |-> records]
             ELSE IF c = "skip" THEN Group(Tail(nbs), z, records)
             ELSE Group(Tail(nbs), z,
                        AddValue(records, Data(r, z),
                                 Decode(r.type, Normalised(r, z))))

\* data["value"] = data.pop("values")[0] when there is exactly one value.
Collapse(d) ==
    IF Len(d.values) = 1
    THEN [name |-> d.name, type |-> d.type, ttl |-> d.ttl, value |-> d.values[1]]
    ELSE d

\* The second loop: one add_record call per grouped record, in dict order.
AddRecords(records, cfg) ==
    [i \in 1..Len(records) |->
        [record |-> Collapse(records[i]), replace |-> cfg.replace_duplicates]]

(***************************************************************************)
(* populate as actions.                                                    *)
(***************************************************************************)
applyVars == <<processed, last, before, calls, lookups, next_id>>

\* _get_nb_zone raises.
PopulateLookupRaises ==
    /\ pc = "idle"
    /\ nb_zone.status = "raise"
    /\ pc' = "error"
    /\ error' = "RequestError"
    /\ UNCHANGED <<config, nb_zone, nb_store, zone, applyVars>>

\* "if not nb_zone: raise LookupError".
PopulateZoneNotFound ==
    /\ pc = "idle"
    /\ nb_zone.status = "none"
    /\ pc' = "error"
    /\ error' = "LookupError"
    /\ UNCHANGED <<config, nb_zone, nb_store, zone, applyVars>>

\* The zone is found and a record has no decode case: the first loop raises.
PopulateDecodeError ==
    /\ pc = "idle"
    /\ nb_zone.status = "found"
    /\ Group(nb_store, nb_zone, <<>>).error /= "none"
    /\ pc' = "error"
    /\ error' = Group(nb_store, nb_zone, <<>>).error
    /\ UNCHANGED <<config, nb_zone, nb_store, zone, applyVars>>

\* The zone is found and every record decodes: the zone receives the records.
PopulateOk ==
    /\ pc = "idle"
    /\ nb_zone.status = "found"
    /\ Group(nb_store, nb_zone, <<>>).error = "none"
    /\ zone' = zone \o AddRecords(Group(nb_store, nb_zone, <<>>).records, config)
    /\ pc' = "populated"
    /\ UNCHANGED <<config, nb_zone, nb_store, error, applyVars>>

(***************************************************************************)
(* The remote records populate is run against.                             *)
(***************************************************************************)
PopulateRecords ==
    {[name |-> n, type |-> "A", value |-> v, ttl |-> t] :
        n \in {"@", "www"}, v \in {<<"1">>, <<"2">>}, t \in {NoTTL, 0, 300}}
    \cup {[name |-> "www", type |-> "CNAME", value |-> v, ttl |-> t] :
        v \in {<<"h">>, <<"h", ".">>}, t \in {NoTTL, 300}}
    \cup {[name |-> "@", type |-> "NS", value |-> <<"@">>, ttl |-> t] :
        t \in {NoTTL, 0, 300}}
    \cup {[name |-> "@", type |-> "MX", value |-> <<"10", " ", "m", ".">>, ttl |-> NoTTL],
          [name |-> "@", type |-> "SOA", value |-> <<"s">>, ttl |-> 300],
          [name |-> "www", type |-> "AFSDB", value |-> <<"1", " ", "h", ".">>, ttl |-> NoTTL]}

\* The store gives each record an id; a fetch yields the records in id order.
WithIds(s) ==
    [i \in 1..Len(s) |->
        [id |-> i, name |-> s[i].name, type |-> s[i].type,
         value |-> s[i].value, ttl |-> s[i].ttl]]

SeqsUpTo(S, n) == UNION {[1..k -> S] : k \in 0..n}

NoChange == [kind |-> "none"]

InitPopulate ==
    /\ config \in Configs
    /\ nb_zone \in ZoneLookups
    /\ nb_store \in {WithIds(s) : s \in SeqsUpTo(PopulateRecords, MaxRecords)}
    /\ pc = "idle"
    /\ error = "none"
    /\ zone = <<>>
    /\ processed = 0
    /\ last = NoChange
    /\ before = <<>>
    /\ calls = <<>>
    /\ lookups = 0
    /\ next_id = Len(nb_store) + 1

NextPopulate ==
    \/ PopulateLookupRaises
    \/ PopulateZoneNotFound
    \/ PopulateDecodeError
    \/ PopulateOk

SpecPopulate == InitPopulate /\ [][NextPopulate]_vars

(***************************************************************************)
(* _apply: raw values of a change's record.                                *)
(***************************************************************************)
\* repr() of a record value: its text between quotes.
Repr(v) == <<"'">> \o v \o <<"'">>

\* repr(v)[1:-1]
Raw(v) == SubSeq(Repr(v), 2, Len(Repr(v)) - 1)

\* The raw-value set of a record: one value (ValueMixin) or a list of values
\* (ValuesMixin).  Every octoDNS record is one or the other, so the
\* "case _: raise ValueError" arms are not reachable.
RawValues(rec) ==
    IF rec.shape = "value" THEN {Raw(rec.value)}
    ELSE {Raw(rec.values[i]) : i \in 1..Len(rec.values)}

\* A mutant of RemoteName: the apex keeps its canonical name "".
RemoteName_Canonical(name) == name

\* name = "@" when name == "".
RemoteName(name) == IF name = "" THEN "@" ELSE name

(***************************************************************************)
(* The remote calls.                                                       *)
(***************************************************************************)
FilterCall(name, type, z) ==
    [op |-> "filter", zone |-> z.id, name |-> name, type |-> type]

\* records.create(zone, name, type, ttl, value, disable_ptr=True)
CreateCall(name, type, ttl, value, z) ==
    [op |-> "create", zone |-> z.id, name |-> name, type |-> type, ttl |-> ttl,
     value |-> value, disable_ptr |-> TRUE]

\* nb_record.delete()
DeleteCall(r) == [op |-> "delete", id |-> r.id]

\* nb_record.ttl = ttl; nb_record.save()
SaveCall(r, ttl) == [op |-> "save", id |-> r.id, ttl |-> ttl]

\* How the remote store answers a fetch whose name parameter is the empty
\* string: it matches the parameter exactly, or it ignores an empty parameter.
EmptyNameModes == {"exact", "ignored"}

\* records.filter(zone_id, name, type): the matching records, in store order.
Filter(store, name, type, mode) ==
    LET Match(r) == /\ r.type = type
                    /\ \/ r.name = name
                       \/ name = "" /\ mode = "ignored"
    IN  SelectSeq(store, Match)

\* The effect of the mutation calls on the remote store.
RECURSIVE Remote(_, _, _)
Remote(store, cs, nid) ==
    IF cs = <<>> THEN store
    ELSE LET c == Head(cs)
             IsNot(r) == r.id /= c.id
         IN  IF c.op = "delete"
             THEN Remote(SelectSeq(store, IsNot), Tail(cs), nid)
             ELSE IF c.op = "save"
             THEN Remote([i \in 1..Len(store) |->
                            IF store[i].id = c.id
                            THEN [store[i] EXCEPT !.ttl = c.ttl]
                            ELSE store[i]],
                         Tail(cs), nid)
             ELSE IF c.op = "create"
             THEN Remote(Append(store, [id |-> nid, name |-> c.name, type |-> c.type,
                                        value |-> c.value, ttl |-> c.ttl]),
                         Tail(cs), nid + 1)
             ELSE Remote(store, Tail(cs), nid)

NumCreates(cs) == Cardinality({i \in 1..Len(cs) : cs[i].op = "create"})

\* The orders in which "for value in <set>" may visit a set.
Orders(S) == {o \in [1..Cardinality(S) -> S] : Range(o) = S}

(***************************************************************************)
(* _apply: the calls of each kind of change.                               *)
(***************************************************************************)
\* "for value in new: records.create(...)", the values visited in order o.
CreateCalls(o, name, c, z) ==
    [i \in 1..Len(o) |-> CreateCall(name, c.type, c.ttl, o[i], z)]

\* Create: no fetch; one create call per raw value of change.new.
CallsOfCreate(c, o, z) == CreateCalls(o, RemoteName(c.name), c, z)

\* Delete: "for nb_record in nb_records: for value in existing:
\* if nb_record.value == value: nb_record.delete()".
RECURSIVE DeleteCalls(_, _)
DeleteCalls(fetched, existing) ==
    IF fetched = <<>> THEN <<>>
    ELSE (IF Head(fetched).value \in existing THEN <<DeleteCall(Head(fetched))>>
          ELSE <<>>)
         \o DeleteCalls(Tail(fetched), existing)

\* Delete: the fetch is given change.existing.name, not the normalised name.
DeleteFetchName(c) == c.name

CallsOfDelete(c, store, mode, z) ==
    <<FilterCall(DeleteFetchName(c), c.type, z)>>
    \o DeleteCalls(Filter(store, DeleteFetchName(c), c.type, mode),
                   RawValues(c.existing))

\* A mutant of ToDelete: every existing value is deleted.
ToDelete_All(existing, new) == existing

\* delete = existing.difference(new)
ToDelete(existing, new) == existing \ new

\* update = existing.intersection(new)
ToUpdate(existing, new) == existing \cap new

\* create = new.difference(existing)
ToCreate(existing, new) == new \ existing

\* Update: the loop over the fetched records.
RECURSIVE ExistingCalls(_, _, _, _)
ExistingCalls(fetched, delete, update, ttl) ==
    IF fetched = <<>> THEN <<>>
    ELSE (IF Head(fetched).value \in delete THEN <<DeleteCall(Head(fetched))>>
          ELSE <<>>)
         \o (IF Head(fetched).value \in update THEN <<SaveCall(Head(fetched), ttl)>>
             ELSE <<>>)
         \o ExistingCalls(Tail(fetched), delete, update, ttl)

\* A mutant of UpdateCalls: the new values are created first.
UpdateCalls_CreateFirst(fetched, c, o, z) ==
    CreateCalls(o, RemoteName(c.name), c, z)
    \o ExistingCalls(fetched,
                     ToDelete(RawValues(c.existing), RawValues(c.new)),
                     ToUpdate(RawValues(c.existing), RawValues(c.new)), c.ttl)

\* Update: the loop over the fetched records, then the loop over create.
UpdateCalls(fetched, c, o, z) ==
    ExistingCalls(fetched,
                  ToDelete(RawValues(c.existing), RawValues(c.new)),
                  ToUpdate(RawValues(c.existing), RawValues(c.new)), c.ttl)
    \o CreateCalls(o, RemoteName(c.name), c, z)

CallsOfUpdate(c, store, o, z) ==
    <<FilterCall(RemoteName(c.name), c.type, z)>>
    \o UpdateCalls(Filter(store, RemoteName(c.name), c.type, "exact"), c, o, z)

(***************************************************************************)
(* The changes a plan is made of.                                          *)
(***************************************************************************)
Values(vs) == [shape |-> "values", values |-> vs]
Value(v) == [shape |-> "value", value |-> v]
NoRecord == [shape |-> "none"]

AddressLists == {<<<<"1">>>>, <<<<"1">>, <<"2">>>>, <<<<"1">>, <<"3">>>>}

AddressUpdates ==
    {<<<<<<"1">>, <<"2">>>>, <<<<"1">>, <<"3">>>>>>,
     <<<<<<"1">>>>, <<<<"1">>, <<"2">>>>>>,
     <<<<<<"1">>, <<"2">>>>, <<<<"1">>>>>>,
     <<<<<<"1">>>>, <<<<"1">>>>>>}

Creates ==
    {[kind |-> "Create", name |-> n, type |-> "A", ttl |-> 600,
      existing |-> NoRecord, new |-> Values(l)] :
        n \in {"", "www"}, l \in AddressLists}
    \cup {[kind |-> "Create", name |-> "www", type |-> "CNAME", ttl |-> 600,
           existing |-> NoRecord, new |-> Value(<<"h", ".">>)]}

Deletes ==
    {[kind |-> "Delete", name |-> n, type |-> "A", ttl |-> 300,
      existing |-> Values(l), new |-> NoRecord] :
        n \in {"", "www"}, l \in AddressLists}
    \cup {[kind |-> "Delete", name |-> "www", type |-> "CNAME", ttl |-> 300,
           existing |-> Value(<<"h", ".">>), new |-> NoRecord]}

Updates ==
    {[kind |-> "Update", name |-> n, type |-> "A", ttl |-> 600,
      existing |-> Values(p[1]), new |-> Values(p[2])] :
        n \in {"", "www"}, p \in AddressUpdates}
    \cup {[kind |-> "Update", name |-> "www", type |-> "CNAME", ttl |-> 600,
           existing |-> Value(<<"h", ".">>), new |-> Value(<<"g", ".">>)]}

Changes == Creates \cup Deletes \cup Updates

(***************************************************************************)
(* _apply as actions: the zone lookup, one step per change of the plan,    *)
(* the return.                                                             *)
(***************************************************************************)
\* A mutant of ApplyStart: the zone's records are fetched up front.
ApplyStart_Prefetch ==
    /\ pc = "idle"
    /\ lookups' = lookups + 1
    /\ IF nb_zone.status = "raise"
       THEN pc' = "error" /\ error' = "RequestError" /\ calls' = calls
       ELSE pc' = "apply" /\ error' = error /\ calls' = <<[op |-> "filter"]>>
    /\ UNCHANGED <<config, nb_zone, nb_store, zone, processed, last, before,
                   next_id>>

\* nb_zone = self._get_nb_zone(...): one lookup, before the loop.
ApplyStart ==
    /\ pc = "idle"
    /\ lookups' = lookups + 1
    /\ IF nb_zone.status = "raise"
       THEN pc' = "error" /\ error' = "RequestError"
       ELSE pc' = "apply" /\ error' = error
    /\ UNCHANGED <<config, nb_zone, nb_store, zone, processed, last, before,
                   calls, next_id>>

\* The lookup returned None: nb_zone.id raises while the arguments of the
\* first remote call of the change are evaluated.
ApplyNoZone ==
    /\ pc = "apply"
    /\ processed < MaxChanges
    /\ nb_zone.status = "none"
    /\ \E c \in Changes : last' = c
    /\ before' = nb_store
    /\ calls' = <<>>
    /\ pc' = "error"
    /\ error' = "AttributeError"
    /\ UNCHANGED <<config, nb_zone, nb_store, zone, processed, lookups, next_id>>

\* The change c has issued the calls cs.
Step(c, cs) ==
    /\ last' = c
    /\ before' = nb_store
    /\ calls' = cs
    /\ nb_store' = Remote(nb_store, cs, next_id)
    /\ next_id' = next_id + NumCreates(cs)
    /\ processed' = processed + 1
    /\ UNCHANGED <<config, nb_zone, pc, error, zone, lookups>>

ApplyCreate ==
    /\ pc = "apply"
    /\ processed < MaxChanges
    /\ nb_zone.status = "found"
    /\ \E c \in Creates : \E o \in Orders(RawValues(c.new)) :
          Step(c, CallsOfCreate(c, o, nb_zone))

ApplyDelete ==
    /\ pc = "apply"
    /\ processed < MaxChanges
    /\ nb_zone.status = "found"
    /\ \E c \in Deletes : \E mode \in EmptyNameModes :
          Step(c, CallsOfDelete(c, nb_store, mode, nb_zone))

ApplyUpdate ==
    /\ pc = "apply"
    /\ processed < MaxChanges
    /\ nb_zone.status = "found"
    /\ \E c \in Updates :
          \E o \in Orders(ToCreate(RawValues(c.existing), RawValues(c.new))) :
             Step(c, CallsOfUpdate(c, nb_store, o, nb_zone))

\* plan.changes is exhausted.
ApplyReturn ==
    /\ pc = "apply"
    /\ pc' = "done"
    /\ UNCHANGED <<config, nb_zone, nb_store, error, zone, processed, last,
                   before, calls, lookups, next_id>>

(***************************************************************************)
(* The remote records _apply is run against.                               *)
(***************************************************************************)
ApplyRecords ==
    {[name |-> n, type |-> "A", value |-> v, ttl |-> 300] :
        n \in {"@", "www"}, v \in {<<"1">>, <<"2">>}}
    \cup {[name |-> "www", type |-> "CNAME", value |-> <<"h", ".">>, ttl |-> 300]}

Init ==
    /\ config = [ttl |-> 3600, replace_duplicates |-> FALSE]
    /\ nb_zone \in ZoneLookups
    /\ nb_store \in {WithIds(s) : s \in SeqsUpTo(ApplyRecords, MaxStore)}
    /\ pc = "idle"
    /\ error = "none"
    /\ zone = <<>>
    /\ processed = 0
    /\ last = NoChange
    /\ before = <<>>
    /\ calls = <<>>
    /\ lookups = 0
    /\ next_id = Len(nb_store) + 1

Next ==
    \/ ApplyStart
    \/ ApplyNoZone
    \/ ApplyCreate
    \/ ApplyDelete
    \/ ApplyUpdate
    \/ ApplyReturn

Spec == Init /\ [][Next]_vars

(***************************************************************************)
(* Properties of populate (checked under SpecPopulate).                    *)
(***************************************************************************)
\* The canonical key a remote record is grouped under.
RemoteKey(r) == <<RcdName(r.name), r.type>>

\* The remote records that are not SOA records, in encounter order.
NonSOA ==
    LET Keep(r) == r.type /= "SOA" IN SelectSeq(nb_store, Keep)

\* The non-SOA remote records grouped under key k, in encounter order.
OfKey(k) ==
    LET Same(r) == RemoteKey(r) = k IN SelectSeq(NonSOA, Same)

\* The values an add_record call carries, whatever its presentation.
ValuesOf(d) == IF "value" \in DOMAIN d THEN <<d.value>> ELSE d.values

IsScalar(d) == "value" \in DOMAIN d /\ "values" \notin DOMAIN d

\* Position in the fetch of the first non-SOA record grouped under key k.
FirstSeen(k) ==
    CHOOSE i \in 1..Len(NonSOA) :
        /\ RemoteKey(NonSOA[i]) = k
        /\ \A j \in 1..(i - 1) : RemoteKey(NonSOA[j]) /= k

\* C6 (as claimed): a record that carries an explicit TTL, 0 included, keeps
\* exactly that TTL; an NS record with no TTL gets soa_refresh; a record of
\* any other type with no TTL gets default_ttl.  Read off the populated
\* record of each key, whose TTL is that of the key's first remote record.
C6_ExplicitTTLKept ==
    pc = "populated" =>
        \A i \in 1..Len(zone) :
            LET d == zone[i].record
                r == OfKey(KeyOf(d))[1]
            IN  d.ttl = IF r.ttl /= NoTTL THEN r.ttl
                        ELSE IF r.type = "NS" THEN nb_zone.soa_refresh
                        ELSE nb_zone.default_ttl

\* C7: populate hands the zone exactly one record per distinct (name, type)
\* key of the non-SOA remote records, in first-seen key order; the values are
\* the decoded values of the key's remote records in encounter order; the TTL
\* is the resolved TTL of the key's first remote record; the record is a
\* scalar iff exactly one remote record had the key.
C7_Coalescing ==
    pc = "populated" =>
        /\ {KeyOf(zone[i].record) : i \in 1..Len(zone)}
              = {RemoteKey(NonSOA[i]) : i \in 1..Len(NonSOA)}
        /\ \A i, j \in 1..Len(zone) :
              i < j => /\ KeyOf(zone[i].record) /= KeyOf(zone[j].record)
                       /\ FirstSeen(KeyOf(zone[i].record))
                             < FirstSeen(KeyOf(zone[j].record))
        /\ \A i \in 1..Len(zone) :
              LET d == zone[i].record
                  rs == OfKey(KeyOf(d))
              IN  /\ ValuesOf(d)
                        = [n \in 1..Len(rs) |->
                              Decode(rs[n].type, Normalised(rs[n], nb_zone))]
                  /\ d.ttl = ResolveTTL(rs[1].ttl, rs[1].type, nb_zone)
                  /\ IsScalar(d) <=> Len(rs) = 1

\* C7 witness: a populate that coalesced two remote records with different
\* TTLs into one list and presented another key as a scalar.
C7_Witness ==
    /\ pc = "populated"
    /\ \E i, j \in 1..Len(zone) :
          /\ ~IsScalar(zone[i].record)
          /\ Len(zone[i].record.values) = 2
          /\ LET rs == OfKey(KeyOf(zone[i].record))
             IN  ResolveTTL(rs[1].ttl, rs[1].type, nb_zone)
                    /= ResolveTTL(rs[2].ttl, rs[2].type, nb_zone)
          /\ IsScalar(zone[j].record)

\* The absolute-naming flag is enabled: the configuration carries it, set.
\* __init__ accepts no such parameter, so no configuration does.
AbsoluteFlag == "make_absolute" \in DOMAIN config /\ config.make_absolute

\* The CNAME remote records whose target has no trailing separator, as
\* positions in the fetch.
RelativeCNAMEs ==
    {i \in 1..Len(nb_store) :
        nb_store[i].type = "CNAME" /\ Last(nb_store[i].value) /= "."}

\* The value populate handed to the zone for the remote record at position i.
PopulatedValue(i) ==
    LET k == RemoteKey(nb_store[i])
        n == Cardinality({j \in 1..i : nb_store[j].type /= "SOA"
                                         /\ RemoteKey(nb_store[j]) = k})
        m == CHOOSE x \in 1..Len(zone) : KeyOf(zone[x].record) = k
    IN  ValuesOf(zone[m].record)[n]

NoCase ==
    {i \in 1..Len(nb_store) :
        nb_store[i].type \notin
            AddressTypes \cup NameTypes \cup TextTypes \cup StructTypes \cup {"SOA"}}

\* C10: once populate has run on a resolved zone, it has ended in an error
\* with nothing added to the zone iff some remote record has a type without a
\* decode case, wherever that record sits; SOA records cause no error and
\* are not handed to the zone.
C10_AllOrNothing ==
    (pc /= "idle" /\ nb_zone.status = "found") =>
        /\ NoCase /= {} => pc = "error" /\ error = "ValueError" /\ zone = <<>>
        /\ NoCase = {} =>
              /\ pc = "populated"
              /\ error = "none"
              /\ \A i \in 1..Len(zone) : zone[i].record.type /= "SOA"
              /\ Len(zone) = Cardinality({RemoteKey(NonSOA[i]) : i \in 1..Len(NonSOA)})

\* C10 witness: the offending record is the last one fetched, after records
\* that decode and an SOA record, and the zone has received nothing.
C10_Witness ==
    /\ pc = "error"
    /\ error = "ValueError"
    /\ zone = <<>>
    /\ Len(nb_store) = 3
    /\ NoCase = {3}
    /\ nb_store[1].type = "A"
    /\ nb_store[2].type = "SOA"

(***************************************************************************)
(* Properties of _apply (checked under Spec).  They are read off the       *)
(* change processed last: last, the store before it, the calls it issued.  *)
(***************************************************************************)
\* A change has been processed to its end.
Processed(kind) == pc \in {"apply", "done"} /\ last.kind = kind

\* The remote record r is stored under the (name, type) of change c, the
\* apex being stored under "@".
Under(r, c) ==
    /\ r.name = (IF c.name = "" THEN "@" ELSE c.name)
    /\ r.type = c.type

NumCalls(op, id) ==
    Cardinality({i \in 1..Len(calls) : calls[i].op = op /\ calls[i].id = id})

NumCreatesOf(v) ==
    Cardinality({i \in 1..Len(calls) : calls[i].op = "create" /\ calls[i].value = v})

Untouched(r) ==
    /\ NumCalls("delete", r.id) = 0
    /\ NumCalls("save", r.id) = 0
    /\ \E j \in 1..Len(nb_store) : nb_store[j] = r

\* Every create call of the last change carries its name (apex as "@"),
\* type and TTL, the zone, and PTR generation disabled.
CreatesWellFormed ==
    \A i \in 1..Len(calls) :
        calls[i].op = "create" =>
            /\ calls[i].name = (IF last.name = "" THEN "@" ELSE last.name)
            /\ calls[i].type = last.type
            /\ calls[i].ttl = last.ttl
            /\ calls[i].zone = nb_zone.id
            /\ calls[i].disable_ptr = TRUE

\* C1: an Update deletes a remote record stored under its (name, type) iff
\* the record's value is in E \ N, sets its TTL to the new TTL in place iff
\* the value is in E \cap N, leaves every other record untouched, issues
\* exactly one create call per value of N \ E, and no other mutation call.
C1_UpdateReconciles ==
    Processed("Update") =>
        LET E == RawValues(last.existing)
            N == RawValues(last.new)
        IN  /\ \A i \in 1..Len(before) :
                  LET r == before[i]
                  IN  IF Under(r, last) /\ r.value \in E \ N
                      THEN /\ NumCalls("delete", r.id) = 1
                           /\ NumCalls("save", r.id) = 0
                           /\ \A j \in 1..Len(nb_store) : nb_store[j].id /= r.id
                      ELSE IF Under(r, last) /\ r.value \in E \cap N
                      THEN /\ NumCalls("delete", r.id) = 0
                           /\ NumCalls("save", r.id) = 1
                           /\ \E j \in 1..Len(calls) :
                                 calls[j] = [op |-> "save", id |-> r.id, ttl |-> last.ttl]
                           /\ \E j \in 1..Len(nb_store) :
                                 nb_store[j] = [r EXCEPT !.ttl = last.ttl]
                      ELSE Untouched(r)
            /\ \A v \in N \ E : NumCreatesOf(v) = 1
            /\ \A i \in 1..Len(calls) :
                  /\ calls[i].op \in {"filter", "delete", "save", "create"}
                  /\ calls[i].op = "create" => calls[i].value \in N \ E
                  /\ calls[i].op \in {"delete", "save"} =>
                        \E j \in 1..Len(before) : before[j].id = calls[i].id
            /\ CreatesWellFormed
            /\ Len(nb_store) = Len(before) + Cardinality(N \ E)
                  - Cardinality({i \in 1..Len(calls) : calls[i].op = "delete"})

\* C1 witness: the update of {1, 2} to {1, 3} at the apex against a store
\* holding both existing values: one delete, one TTL update, one create.
C1_Witness ==
    /\ Processed("Update")
    /\ last.name = ""
    /\ RawValues(last.existing) = {<<"1">>, <<"2">>}
    /\ RawValues(last.new) = {<<"1">>, <<"3">>}
    /\ \E i, j \in 1..Len(before) :
          /\ Under(before[i], last) /\ before[i].value = <<"1">>
          /\ Under(before[j], last) /\ before[j].value = <<"2">>
    /\ Cardinality({i \in 1..Len(calls) : calls[i].op = "delete"}) = 1
    /\ Cardinality({i \in 1..Len(calls) : calls[i].op = "save"}) = 1
    /\ Cardinality({i \in 1..Len(calls) : calls[i].op = "create"}) = 1

\* C2 (as claimed): a Delete deletes exactly the remote records stored under
\* its (name, type), the apex under "@", whose value is in the existing
\* record's raw-value set; every other record is unchanged; no create or
\* TTL-update call is issued.
C2_DeleteExact ==
    Processed("Delete") =>
        /\ \A i \in 1..Len(before) :
              LET r == before[i]
              IN  IF Under(r, last) /\ r.value \in RawValues(last.existing)
                  THEN /\ NumCalls("delete", r.id) = 1
                       /\ \A j \in 1..Len(nb_store) : nb_store[j].id /= r.id
                  ELSE Untouched(r)
        /\ \A i \in 1..Len(calls) : calls[i].op \in {"filter", "delete"}

\* The raw value v is already represented remotely under the change's key.
Represented(v) ==
    \E i \in 1..Len(before) : Under(before[i], last) /\ before[i].value = v

\* C3 (as claimed): a Create issues exactly one create call for each raw
\* value of new that is not already represented in the remote store under
\* its (name, type), none for a value that is, and no delete or update call.
C3_CreateOnlyMissing ==
    Processed("Create") =>
        /\ \A v \in RawValues(last.new) :
              NumCreatesOf(v) = IF Represented(v) THEN 0 ELSE 1
        /\ CreatesWellFormed
        /\ \A i \in 1..Len(calls) : calls[i].op \notin {"delete", "save"}

\* C3 (amended): a Create issues exactly one create call for each distinct
\* raw value of new, represented remotely or not, each carrying the name
\* (apex as "@"), type, TTL and value with PTR generation disabled; it
\* issues no other call, and the records already stored are unchanged.
C3_CreateEach ==
    Processed("Create") =>
        /\ \A v \in RawValues(last.new) : NumCreatesOf(v) = 1
        /\ \A i \in 1..Len(calls) :
              calls[i].op = "create" /\ calls[i].value \in RawValues(last.new)
        /\ CreatesWellFormed
        /\ Len(nb_store) = Len(before) + Cardinality(RawValues(last.new))
        /\ \A i \in 1..Len(before) : nb_store[i] = before[i]
        /\ \A i \in (Len(before) + 1)..Len(nb_store) :
              /\ Under(nb_store[i], last)
              /\ nb_store[i].value \in RawValues(last.new)
              /\ nb_store[i].ttl = last.ttl

\* C3 witness: a Create at the apex of two values, one of which the remote
\* store already holds under the same name and type.
C3_Witness ==
    /\ Processed("Create")
    /\ last.name = ""
    /\ Cardinality(RawValues(last.new)) = 2
    /\ \E v \in RawValues(last.new) : Represented(v)
    /\ \E v \in RawValues(last.new) : ~Represented(v)
    /\ Len(calls) = 2

\* C4 (as claimed): applying an empty change set issues no remote call of
\* any kind, the zone lookup included.
C4_EmptyNoCalls ==
    (pc = "done" /\ processed = 0) => lookups = 0 /\ calls = <<>>

\* C4 (amended): applying an empty change set issues exactly one remote
\* call, the zone lookup, and no fetch, create, delete or update call.
C4_EmptyOnlyLookup ==
    (pc = "done" /\ processed = 0) =>
        /\ lookups = 1
        /\ calls = <<>>
        /\ last = NoChange
        /\ next_id = Len(nb_store) + 1

\* C4 witness: an apply of an empty change set has returned, against a
\* zone that resolves and a store that holds records.
C4_Witness ==
    /\ pc = "done"
    /\ processed = 0
    /\ nb_zone.status = "found"
    /\ Len(nb_store) = 2

\* C5 (as claimed): the zone is resolved exactly once per invocation; when
\* it cannot be resolved the batch ends in an error, never normally, and no
\* create, delete or TTL-update call is issued.
C5_UnresolvedIsFatal ==
    /\ pc \in {"apply", "done", "error"} => lookups = 1
    /\ nb_zone.status /= "found" =>
          /\ pc /= "done"
          /\ \A i \in 1..Len(calls) : calls[i].op \notin {"create", "delete", "save"}

\* C9: within an Update no create call is followed by a delete or a
\* TTL-update call: all of those come before the first create.
C9_UpdateOrder ==
    Processed("Update") =>
        \A i, j \in 1..Len(calls) :
            (i < j /\ calls[i].op = "create") => calls[j].op \notin {"delete", "save"}

\* C9 witness: an Update that issued a delete, a TTL update and a create.
C9_Witness ==
    /\ Processed("Update")
    /\ \E i, j, k \in 1..Len(calls) :
          /\ calls[i].op = "delete"
          /\ calls[j].op = "save"
          /\ calls[k].op = "create"

====
